---- MODULE Spec2Model ----
\* A model of midirec.py: the MidiRecorder class (wait_first_event,
\* start_recording, __call__, save_track, open_port, close_port) and the
\* script's control thread (open, wait, record, rotate on idle timeout,
\* interrupt, final save), together with the rtmidi input the recorder drives.
\*
\* Two threads act on the recorder: the control thread (the script's main
\* thread, position pc) and the rtmidi input thread, which calls __call__ for
\* every incoming message once set_callback has been called, and fills rtmidi's
\* queue (read by get_message) before that.
\*
\* Time.  Wall-clock time (datetime.now()) is the integer `now`, in seconds.
\* The delta time rtmidi reports with each message, and abstime, are counted
\* in units of 1/UnitsPerSec second; at the recorder's fixed tempo one unit is
\* half a tick, so that the ties of round() are representable.
\*
\* Library behaviour the model relies on (none of it is in the repository):
\*   rtmidi   a message is handed to the callback when one is set, and put on
\*            the queue otherwise; get_message pops the queue; MidiIn.close_port
\*            cancels the callback; exceptions a callback raises are printed
\*            and dropped by the input thread.
\*   mido     Message(type, **kw) raises ValueError for a keyword that is not
\*            an attribute of the message type; MidiFile() has
\*            ticks_per_beat = 480.
\*   python3  round() rounds ties to the even integer.
EXTENDS Integers, Sequences, FiniteSets

VARIABLES
    pc,             \* position of the control thread in the script
    auto,           \* args.auto: idle timeout in seconds, 0 = no rotation
    ports,          \* recorder.ports is non-empty
    filename,       \* the script's filename: <<>> fixed name, <<t>> stamped
    exit,           \* "none" while running, then the exit code "0" or "1"
    msg,            \* recorder.msg: <<>> for None, <<event>> otherwise
    time_last_msg,  \* recorder.time_last_msg
    mid,            \* recorder.mid (and .track, .abstime) exist
    track,          \* recorder.track, the only track of recorder.mid
    abstime,        \* recorder.abstime
    portOpen,       \* the rtmidi port is open
    callback,       \* rtmidi has a callback set (the recorder itself)
    queue,          \* rtmidi's queue of messages not yet read
    now,            \* wall clock
    files,          \* every save_track so far: [name, events]
    nEvents,        \* messages received so far (bounds the run)
    fed,            \* history: events given to __call__ in this session
    origin,         \* history: origin[k] is the index in fed of track[k]
    recv,           \* history: messages received, one sequence per segment
    clean,          \* history: no message arrived inside a hand-over window
    fault,          \* history: the device or the disk failed
    intrAt,         \* history: pc at which KeyboardInterrupt was raised
    cbRaised,       \* history: some __call__ raised an exception
    sessFirst,      \* history: the buffered message this session started with
    sessions,       \* history: per session, when its first event was taken
                    \* by wait_first_event and when start_recording ran
    gwActed         \* history: the last step was a callback invocation

vars == <<pc, auto, ports, filename, exit, msg, time_last_msg, mid, track,
          abstime, portOpen, callback, queue, now, files, nEvents, fed,
          origin, recv, clean, fault, intrAt, cbRaised, sessFirst, sessions,
          gwActed>>

-----------------------------------------------------------------------------
\* Bounds of the model.

\* Messages the device sends in one run.
MaxEvents == 3
\* Seconds of wall-clock time in one run.
MaxTime == 3
\* Calls of __call__ in one run of the recorder alone.
MaxCalls == 3
\* Seconds of wall-clock time in one of the longer runs.
MaxLongTime == 5

-----------------------------------------------------------------------------
\* Constants of the program.

STAT_NOFF == 8
STAT_NON == 9
STAT_PKEYPR == 10
STAT_CCHNG == 11
STAT_PCHNG == 12
STAT_CHANPR == 13
STAT_PWHEEL == 14
\* Status byte of active sense (the literal 254 of wait_first_event, __call__).
ActiveSense == 254
\* start_recording's default tempo, in beats per minute.
Tempo == 120
\* ticks_per_beat of mido's MidiFile(type=0).
TicksPerBeat == 480
\* --auto SECS of the runs with rotation.
AutoSecs == 1

\* Units of delta time per second: half ticks at Tempo and TicksPerBeat.
UnitsPerSec == 2 * ((TicksPerBeat * Tempo) \div 60)

-----------------------------------------------------------------------------
\* Raw events: what rtmidi delivers, ([status, data1, data2], deltatime).

RawEvent(s, t) == [status |-> s, d1 |-> 60, d2 |-> 100, dt |-> t]

\* The events of the runs of the whole program: note on (0x90), pitch wheel
\* (0xE0), active sense (0xFE), song position (0xF2, no channel-voice
\* message), and a zero status byte.
RunEvents ==
    { RawEvent(144, 2), RawEvent(224, 1), RawEvent(ActiveSense, 1),
      RawEvent(242, 1), RawEvent(0, 1) }

\* The events of the runs of the recorder alone: every channel-voice kind on
\* some channel, active sense, 0xF2, and a byte that is no status (0x45);
\* deltas of half a tick, one tick and half a second.
CallStatuses == {144, 129, 162, 179, 196, 213, 230, ActiveSense, 242, 69}
CallDeltas == {1, 2, UnitsPerSec \div 2}
CallEvents == { RawEvent(s, t) : s \in CallStatuses, t \in CallDeltas }

-----------------------------------------------------------------------------
\* MidiRecorder.__call__

\* msg[0] >> 4 and msg[0] & 0x0F
HighNibble(s) == s \div 16
Channel(s) == s % 16

\* The if/elif chain of __call__: the mido message type built for a status.
Kind(s) ==
    IF HighNibble(s) = STAT_NON THEN "note_on"
    ELSE IF HighNibble(s) = STAT_NOFF THEN "note_off"
    ELSE IF HighNibble(s) = STAT_PKEYPR THEN "polytouch"
    ELSE IF HighNibble(s) = STAT_CCHNG THEN "control_change"
    ELSE IF HighNibble(s) = STAT_PCHNG THEN "program_change"
    ELSE IF HighNibble(s) = STAT_CHANPR THEN "aftertouch"
    ELSE IF HighNibble(s) = STAT_PWHEEL THEN "pitchwheel"
    ELSE "unknown"

\* The keywords __call__ passes to Message() for each type.
KwArgs(k) ==
    IF k \in {"note_on", "note_off"}
    THEN {"channel", "note", "velocity", "time"}
    ELSE {"channel", "control", "value", "time"}

\* mido: the attributes of each message type.
MidoAttributes(k) ==
    CASE k \in {"note_on", "note_off"} -> {"channel", "note", "velocity", "time"}
      [] k = "polytouch" -> {"channel", "note", "value", "time"}
      [] k = "control_change" -> {"channel", "control", "value", "time"}
      [] k = "program_change" -> {"channel", "program", "time"}
      [] k = "aftertouch" -> {"channel", "value", "time"}
      [] k = "pitchwheel" -> {"channel", "pitch", "time"}
      [] OTHER -> {}

\* Message(k, **KwArgs(k)) returns a message; it raises ValueError otherwise.
\* (rtmidi delivers program change and channel pressure as two bytes, for
\* which msg[2] raises IndexError before Message is called: the same outcome.)
MessageBuilt(k) == KwArgs(k) \subseteq MidoAttributes(k)

\* The message appended to the track.
Message(k, s, e, ticks) ==
    [type |-> k, channel |-> Channel(s), data1 |-> e.d1, data2 |-> e.d2,
     time |-> ticks]

\* round(n / d) of python 3 for n >= 0, d > 0: ties go to the even integer.
RoundHalfEven(n, d) ==
    LET q == n \div d
        r == n % d
    IN  IF 2 * r < d THEN q
        ELSE IF 2 * r > d THEN q + 1
        ELSE IF q % 2 = 0 THEN q ELSE q + 1

\* round(n / d) with ties away from zero, as python 2 rounds.
RoundHalfAway(n, d) ==
    LET q == n \div d
        r == n % d
    IN  IF 2 * r < d THEN q ELSE q + 1

\* Second2Tick with python 2's round().
Second2TickAway(a) == RoundHalfAway(a * TicksPerBeat * Tempo, 60 * UnitsPerSec)

\* int(round(mido.second2tick(abstime, ticks_per_beat, bpm2tempo(tempo)))),
\* for abstime = a units.
Second2Tick(a) == RoundHalfEven(a * TicksPerBeat * Tempo, 60 * UnitsPerSec)

\* ResetsAccumulator if no branch reset abstime.
ResetsNever(k) == FALSE

\* ResetsAccumulator with self.abstime = 0 in every branch that appends.
ResetsAlways(k) == k # "unknown"

\* The branches of __call__ that end with self.abstime = 0.
ResetsAccumulator(k) == k \in {"note_on", "note_off"}

\* NotIgnored without the test of line 88.
NotIgnoredAll(s) == TRUE

\* The guard of __call__: active sense is ignored.
NotIgnored(s) == s # ActiveSense

\* __call__(event) on a recorder with accumulator a, track trk and
\* time_last_msg tlm, at wall-clock time t: the recorder's fields after the
\* call, and whether the call raised.
Call(e, a, trk, tlm, t) ==
    LET a1 == a + e.dt
        k == Kind(e.status)
    IN  IF ~NotIgnored(e.status)
        THEN [abstime |-> a1, track |-> trk, tlm |-> tlm,
              raised |-> FALSE, appended |-> FALSE]
        ELSE IF k = "unknown"
        THEN [abstime |-> a1, track |-> trk, tlm |-> t,
              raised |-> FALSE, appended |-> FALSE]
        ELSE IF ~MessageBuilt(k)
        THEN [abstime |-> a1, track |-> trk, tlm |-> tlm,
              raised |-> TRUE, appended |-> FALSE]
        ELSE [abstime |-> IF ResetsAccumulator(k) THEN 0 ELSE a1,
              track |-> Append(trk, Message(k, e.status, e, Second2Tick(a1))),
              tlm |-> t, raised |-> FALSE, appended |-> TRUE]

-----------------------------------------------------------------------------
\* MidiRecorder.wait_first_event

\* FirstEventAccepted without the test for a zero status byte.
FirstEventAcceptedZero(s) == s # ActiveSense

\* FirstEventAccepted without the active-sense test.
FirstEventAcceptedLax(s) == s # 0

\* The two tests of wait_first_event: the message ends the wait.
FirstEventAccepted(s) == s # ActiveSense /\ s # 0

-----------------------------------------------------------------------------
\* The script.

\* "%s_%s.mid" % (name, now) in auto mode, name + ".mid" otherwise; the stamp
\* has a resolution of one second.
StampedName(t) == <<t>>
FixedName == <<>>

\* TimedOut one second late.
TimedOutLate == now > time_last_msg + auto + 1

\* TimedOut with the timeout subtracted instead of added.
TimedOutEarly == now > time_last_msg - auto

\* The timeout test of the program loop.
TimedOut == now > time_last_msg + auto

TryPcs == {"open", "wait", "start", "loop", "save", "close", "reopen",
           "rwait", "fname", "rstart"}
Terminal == {"done", "failed"}

ctl == <<pc, exit, intrAt>>
dev == <<portOpen, callback, queue>>
rec == <<msg, time_last_msg, mid, track, abstime>>
hist == <<fed, origin, sessFirst, cbRaised, sessions>>

Init ==
    /\ pc = "open"
    /\ auto \in {0, AutoSecs}
    /\ ports \in BOOLEAN
    /\ filename = IF auto # 0 THEN StampedName(0) ELSE FixedName
    /\ exit = "none"
    /\ msg = <<>>
    /\ time_last_msg = 0
    /\ mid = FALSE
    /\ track = <<>>
    /\ abstime = 0
    /\ portOpen = FALSE
    /\ callback = FALSE
    /\ queue = <<>>
    /\ now = 0
    /\ files = <<>>
    /\ nEvents = 0
    /\ fed = <<>>
    /\ origin = <<>>
    /\ recv = << <<>> >>
    /\ clean = TRUE
    /\ fault = FALSE
    /\ intrAt = "none"
    /\ cbRaised = FALSE
    /\ sessFirst = <<>>
    /\ sessions = <<>>
    /\ gwActed = FALSE

\* An exception other than KeyboardInterrupt inside the try block: the
\* handler logs and calls sys.exit(1).
Raise ==
    /\ pc' = "failed"
    /\ exit' = "1"
    /\ UNCHANGED intrAt

\* recorder.open_port(args.device), at start-up and in a rotation.
OpenPort ==
    /\ pc \in {"open", "reopen"}
    /\ gwActed' = FALSE
    /\ \E ok \in BOOLEAN :
         IF ports /\ ok
         THEN /\ portOpen' = TRUE
              /\ pc' = IF pc = "open" THEN "wait" ELSE "rwait"
              /\ UNCHANGED <<exit, intrAt, fault>>
         ELSE /\ Raise
              /\ fault' = TRUE
              /\ UNCHANGED portOpen
    /\ UNCHANGED <<auto, ports, filename, rec, callback, queue, now, files,
                   nEvents, hist, recv, clean>>

\* One iteration of the loop of wait_first_event.
WaitFirstEvent ==
    /\ pc \in {"wait", "rwait"}
    /\ gwActed' = FALSE
    /\ IF queue = <<>>
       THEN /\ msg' = <<>>
            /\ UNCHANGED <<queue, time_last_msg, pc>>
       ELSE /\ msg' = <<Head(queue)>>
            /\ queue' = Tail(queue)
            /\ IF FirstEventAccepted(Head(queue).status)
               THEN /\ time_last_msg' = now
                    /\ pc' = IF pc = "wait" THEN "start" ELSE "fname"
               ELSE UNCHANGED <<time_last_msg, pc>>
    /\ UNCHANGED <<auto, ports, filename, exit, mid, track, abstime, portOpen,
                   callback, now, files, nEvents, hist, recv, clean, fault,
                   intrAt>>

\* recorder.start_recording(debug=args.verbose): a new track, the buffered
\* message replayed through __call__, then set_callback.
StartRecording ==
    /\ pc \in {"start", "rstart"}
    /\ gwActed' = FALSE
    /\ mid' = TRUE
    /\ sessFirst' = msg
    /\ sessions' = Append(sessions, [first |-> time_last_msg, start |-> now])
    /\ IF msg = <<>>
       THEN /\ abstime' = 0
            /\ track' = <<>>
            /\ fed' = <<>>
            /\ origin' = <<>>
            /\ callback' = TRUE
            /\ pc' = "loop"
            /\ UNCHANGED <<time_last_msg, cbRaised, exit, intrAt>>
       ELSE LET r == Call(msg[1], 0, <<>>, time_last_msg, now)
            IN  /\ abstime' = r.abstime
                /\ track' = r.track
                /\ time_last_msg' = r.tlm
                /\ fed' = <<msg[1]>>
                /\ origin' = IF r.appended THEN <<1>> ELSE <<>>
                /\ IF r.raised
                   THEN /\ Raise
                        /\ cbRaised' = TRUE
                        /\ UNCHANGED callback
                   ELSE /\ callback' = TRUE
                        /\ pc' = "loop"
                        /\ UNCHANGED <<cbRaised, exit, intrAt>>
    /\ UNCHANGED <<auto, ports, filename, msg, portOpen, queue, now, files,
                   nEvents, recv, clean, fault>>

\* Poll without the test of args.auto.
PollWithoutAutoTest ==
    /\ pc = "loop"
    /\ TimedOut
    /\ pc' = "save"
    /\ recv' = Append(recv, <<>>)
    /\ gwActed' = FALSE
    /\ UNCHANGED <<auto, ports, filename, exit, rec, dev, now, files, nEvents,
                   hist, clean, fault, intrAt>>

\* The program loop: in auto mode, the iteration that finds the timeout
\* exceeded (the other iterations change nothing).
Poll ==
    /\ pc = "loop"
    /\ auto # 0
    /\ TimedOut
    /\ pc' = "save"
    /\ recv' = Append(recv, <<>>)
    /\ gwActed' = FALSE
    /\ UNCHANGED <<auto, ports, filename, exit, rec, dev, now, files, nEvents,
                   hist, clean, fault, intrAt>>

\* A rotation whose save_track writes no file.
SaveTrackSkipped ==
    /\ pc = "save"
    /\ gwActed' = FALSE
    /\ \E ok \in BOOLEAN :
         IF ok
         THEN /\ pc' = "close"
              /\ UNCHANGED <<files, exit, intrAt, fault>>
         ELSE /\ Raise
              /\ fault' = TRUE
              /\ UNCHANGED files
    /\ UNCHANGED <<auto, ports, filename, rec, dev, now, nEvents, hist, recv,
                   clean>>

\* recorder.save_track(filename) of the rotation.
SaveTrack ==
    /\ pc = "save"
    /\ gwActed' = FALSE
    /\ \E ok \in BOOLEAN :
         IF ok
         THEN /\ files' = Append(files, [name |-> filename, events |-> track])
              /\ pc' = "close"
              /\ UNCHANGED <<exit, intrAt, fault>>
         ELSE /\ Raise
              /\ fault' = TRUE
              /\ UNCHANGED files
    /\ UNCHANGED <<auto, ports, filename, rec, dev, now, nEvents, hist, recv,
                   clean>>

\* recorder.close_port() of the rotation.  rtmidi cancels the callback; what
\* it does with unread messages is not specified, so the queue is kept or
\* emptied.
ClosePort ==
    /\ pc = "close"
    /\ gwActed' = FALSE
    /\ \E ok \in BOOLEAN :
         IF ok
         THEN /\ portOpen' = FALSE
              /\ callback' = FALSE
              /\ queue' \in {queue, <<>>}
              /\ pc' = "reopen"
              /\ UNCHANGED <<exit, intrAt, fault>>
         ELSE /\ Raise
              /\ fault' = TRUE
              /\ UNCHANGED dev
    /\ UNCHANGED <<auto, ports, filename, rec, now, files, nEvents, hist,
                   recv, clean>>

\* filename = "%s_%s.mid" % (args.name, datetime.now()...) of the rotation.
NewFilename ==
    /\ pc = "fname"
    /\ filename' = StampedName(now)
    /\ pc' = "rstart"
    /\ gwActed' = FALSE
    /\ UNCHANGED <<auto, ports, exit, rec, dev, now, files, nEvents, hist,
                   recv, clean, fault, intrAt>>

\* KeyboardInterrupt inside the try block: except KeyboardInterrupt: pass.
Interrupt ==
    /\ pc \in TryPcs
    /\ pc' = "final_close"
    /\ intrAt' = pc
    /\ gwActed' = FALSE
    /\ UNCHANGED <<auto, ports, filename, exit, rec, dev, now, files, nEvents,
                   hist, recv, clean, fault>>

\* recorder.close_port() after the try block.
FinalClose ==
    /\ pc = "final_close"
    /\ portOpen' = FALSE
    /\ callback' = FALSE
    /\ pc' = "final_save"
    /\ gwActed' = FALSE
    /\ UNCHANGED <<auto, ports, filename, exit, rec, queue, now, files,
                   nEvents, hist, recv, clean, fault, intrAt>>

\* recorder.save_track(filename) after the try block: self.mid.save(path).
\* Without a recorder.mid the attribute lookup raises, and so may the write;
\* an exception here is uncaught and the interpreter exits with code 1.
FinalSave ==
    /\ pc = "final_save"
    /\ gwActed' = FALSE
    /\ IF ~mid
       THEN /\ pc' = "failed"
            /\ exit' = "1"
            /\ UNCHANGED <<files, fault>>
       ELSE \E ok \in BOOLEAN :
              IF ok
              THEN /\ files' = Append(files, [name |-> filename, events |-> track])
                   /\ pc' = "done"
                   /\ exit' = "0"
                   /\ UNCHANGED fault
              ELSE /\ pc' = "failed"
                   /\ exit' = "1"
                   /\ fault' = TRUE
                   /\ UNCHANGED files
    /\ UNCHANGED <<auto, ports, filename, rec, dev, now, nEvents, hist, recv,
                   clean, intrAt>>

\* The pcs between the timeout test and close_port: the rotation has begun and
\* the callback of the old session is still set.
HandOver == {"save", "close"}

\* The device sends a message while the port is open: rtmidi's input thread
\* calls the recorder (__call__) if a callback is set and queues the message
\* otherwise.
Deliver(e) ==
    /\ portOpen
    /\ pc \notin Terminal
    /\ nEvents < MaxEvents
    /\ nEvents' = nEvents + 1
    /\ recv' = [recv EXCEPT ![Len(recv)] = Append(@, e)]
    /\ clean' = (clean /\ pc \notin HandOver)
    /\ gwActed' = callback
    /\ IF callback
       THEN LET r == Call(e, abstime, track, time_last_msg, now)
            IN  /\ abstime' = r.abstime
                /\ track' = r.track
                /\ time_last_msg' = r.tlm
                /\ fed' = Append(fed, e)
                /\ origin' = IF r.appended
                             THEN Append(origin, Len(fed) + 1) ELSE origin
                /\ cbRaised' = (cbRaised \/ r.raised)
                /\ UNCHANGED queue
       ELSE /\ queue' = Append(queue, e)
            /\ UNCHANGED <<abstime, track, time_last_msg, fed, origin,
                           cbRaised>>
    /\ UNCHANGED <<auto, ports, filename, ctl, msg, mid, portOpen, callback,
                   now, files, fault, sessFirst, sessions>>

\* A second of wall-clock time passes.
Tick ==
    /\ now < MaxTime
    /\ pc \notin Terminal
    /\ now' = now + 1
    /\ gwActed' = FALSE
    /\ UNCHANGED <<auto, ports, filename, ctl, rec, dev, files, nEvents,
                   hist, recv, clean, fault>>

Next ==
    \/ OpenPort
    \/ WaitFirstEvent
    \/ StartRecording
    \/ Poll
    \/ SaveTrack
    \/ ClosePort
    \/ NewFilename
    \/ Interrupt
    \/ FinalClose
    \/ FinalSave
    \/ \E e \in RunEvents : Deliver(e)
    \/ Tick

Spec == Init /\ [][Next]_vars

\* Longer runs of the whole program in which the device sends notes and
\* active sense only: long enough for two rotations, three sessions.
LongEvents == { RawEvent(144, 2), RawEvent(ActiveSense, 1) }

TickLong ==
    /\ now < MaxLongTime
    /\ pc \notin Terminal
    /\ now' = now + 1
    /\ gwActed' = FALSE
    /\ UNCHANGED <<auto, ports, filename, ctl, rec, dev, files, nEvents,
                   hist, recv, clean, fault>>

NextLong ==
    \/ OpenPort
    \/ WaitFirstEvent
    \/ StartRecording
    \/ Poll
    \/ SaveTrack
    \/ ClosePort
    \/ NewFilename
    \/ Interrupt
    \/ FinalClose
    \/ FinalSave
    \/ \E e \in LongEvents : Deliver(e)
    \/ TickLong

SpecLong == Init /\ [][NextLong]_vars

\* The longer runs with a control thread that keeps running: its loop polls
\* every 10 ms, and save_track, close_port and open_port of a rotation are
\* the next statements of the same thread.  Nothing is assumed of the device,
\* the clock or the interrupt.
SpecFair ==
    /\ SpecLong
    /\ WF_vars(Poll)
    /\ WF_vars(SaveTrack)
    /\ WF_vars(ClosePort)
    /\ WF_vars(OpenPort)

-----------------------------------------------------------------------------
\* The recorder alone: a session in which the input thread calls __call__
\* with arbitrary events, and which start_recording may begin anew with an
\* arbitrary buffered message.

InitCall ==
    /\ pc = "call"
    /\ auto = 0
    /\ ports = TRUE
    /\ filename = FixedName
    /\ exit = "none"
    /\ msg = <<>>
    /\ time_last_msg = 0
    /\ mid = TRUE
    /\ track = <<>>
    /\ abstime = 0
    /\ portOpen = TRUE
    /\ callback = TRUE
    /\ queue = <<>>
    /\ now = 1
    /\ files = <<>>
    /\ nEvents = 0
    /\ fed = <<>>
    /\ origin = <<>>
    /\ recv = << <<>> >>
    /\ clean = TRUE
    /\ fault = FALSE
    /\ intrAt = "none"
    /\ cbRaised = FALSE
    /\ sessFirst = <<>>
    /\ sessions = <<>>
    /\ gwActed = FALSE

\* __call__(e), called by the input thread.
Invoke(e) ==
    /\ pc = "call"
    /\ nEvents < MaxCalls
    /\ nEvents' = nEvents + 1
    /\ gwActed' = TRUE
    /\ LET r == Call(e, abstime, track, time_last_msg, now)
       IN  /\ abstime' = r.abstime
           /\ track' = r.track
           /\ time_last_msg' = r.tlm
           /\ fed' = Append(fed, e)
           /\ origin' = IF r.appended
                        THEN Append(origin, Len(fed) + 1) ELSE origin
           /\ cbRaised' = (cbRaised \/ r.raised)
    /\ UNCHANGED <<auto, ports, filename, ctl, msg, mid, dev, now, files,
                   recv, clean, fault, sessFirst, sessions>>

\* start_recording() with e the message wait_first_event has buffered.
NewSession(e) ==
    /\ pc = "call"
    /\ nEvents < MaxCalls
    /\ FirstEventAccepted(e.status)
    /\ nEvents' = nEvents + 1
    /\ gwActed' = FALSE
    /\ msg' = <<e>>
    /\ sessFirst' = <<e>>
    /\ sessions' = Append(sessions, [first |-> now, start |-> now])
    /\ LET r == Call(e, 0, <<>>, time_last_msg, now)
       IN  /\ abstime' = r.abstime
           /\ track' = r.track
           /\ time_last_msg' = r.tlm
           /\ fed' = <<e>>
           /\ origin' = IF r.appended THEN <<1>> ELSE <<>>
           /\ cbRaised' = (cbRaised \/ r.raised)
    /\ UNCHANGED <<auto, ports, filename, ctl, mid, dev, now, files, recv,
                   clean, fault>>

NextCall ==
    \/ \E e \in CallEvents : Invoke(e)
    \/ \E e \in CallEvents : NewSession(e)

SpecCall == InitCall /\ [][NextCall]_vars

-----------------------------------------------------------------------------
\* Vocabulary of the properties.

\* Status bytes of channel-voice messages: high nibble 0x8..0xE.
ChannelVoice(s) == HighNibble(s) \in 8..14
NoteStatus(s) == HighNibble(s) \in {8, 9}

\* The message type the documentation maps to each high nibble.
TypeOfNibble(n) ==
    CASE n = 8 -> "note_off"
      [] n = 9 -> "note_on"
      [] n = 10 -> "polytouch"
      [] n = 11 -> "control_change"
      [] n = 12 -> "program_change"
      [] n = 13 -> "aftertouch"
      [] n = 14 -> "pitchwheel"
      [] OTHER -> "none"

\* What a raw event is to be recorded as, without its time.
Decoded(e) ==
    [type |-> TypeOfNibble(HighNibble(e.status)), channel |-> e.status % 16,
     data1 |-> e.d1, data2 |-> e.d2]
Untimed(m) ==
    [type |-> m.type, channel |-> m.channel, data1 |-> m.data1,
     data2 |-> m.data2]

\* The channel-voice events of a sequence of raw events, decoded, in order.
RECURSIVE DecodedAll(_)
DecodedAll(es) ==
    IF es = <<>> THEN <<>>
    ELSE IF ChannelVoice(Head(es).status)
         THEN <<Decoded(Head(es))>> \o DecodedAll(Tail(es))
         ELSE DecodedAll(Tail(es))
UntimedAll(ms) == [k \in DOMAIN ms |-> Untimed(ms[k])]

\* Sum of the delta times of fed[i..j], sum of the times of track[i..j].
RECURSIVE SumDt(_, _)
SumDt(i, j) == IF i > j THEN 0 ELSE fed[j].dt + SumDt(i, j - 1)
RECURSIVE SumTime(_, _)
SumTime(i, j) == IF i > j THEN 0 ELSE track[j].time + SumTime(i, j - 1)

\* Index in fed of the last NoteOn/NoteOff among fed[1..j], 0 if none.
RECURSIVE LastNote(_)
LastNote(j) ==
    IF j = 0 THEN 0
    ELSE IF NoteStatus(fed[j].status) THEN j ELSE LastNote(j - 1)

\* Time accumulated when fed[j] is processed: since the previous
\* NoteOn/NoteOff, or since the start of the session.
Accumulated(j) == SumDt(LastNote(j - 1) + 1, j)

\* Numerator and denominator of ticks per unit of delta time.
TickNum == TicksPerBeat * Tempo
TickDen == 60 * UnitsPerSec
Dist(a, b) == IF a >= b THEN a - b ELSE b - a

-----------------------------------------------------------------------------
\* C3: between two consecutive NoteOn/NoteOff events of a session, the
\* tick_delta values emitted after the first up to and including the second
\* sum to the quantization of the delta_seconds of that span, within 1 tick.
C3_SpanTicksMatchSpanTime ==
    \A i, j \in DOMAIN track :
        ( /\ i < j
          /\ track[i].type \in {"note_on", "note_off"}
          /\ track[j].type \in {"note_on", "note_off"}
          /\ \A k \in (i + 1)..(j - 1) :
                track[k].type \notin {"note_on", "note_off"} )
        => Dist(SumTime(i + 1, j),
                Second2Tick(SumDt(origin[i] + 1, origin[j]))) <= 1

\* C4: abstime is the sum of the delta_seconds of the events processed since
\* the last NoteOn/NoteOff of the session, or since the session started:
\* __call__ adds every event's delta and resets only on NoteOn and NoteOff.
C4_AccumulatorSinceLastNote ==
    mid => abstime = SumDt(LastNote(Len(fed)) + 1, Len(fed))

\* A note, then a control change, then an active sense have been processed,
\* and the accumulator holds the time of the last two.
C4_Witness ==
    /\ Len(fed) = 3
    /\ NoteStatus(fed[1].status)
    /\ HighNibble(fed[2].status) = 11
    /\ fed[3].status = 254
    /\ Len(track) = 2
    /\ abstime = fed[2].dt + fed[3].dt

\* C5 as stated: every recorded tick_delta is the accumulated time times
\* ticks_per_beat * tempo_bpm / 60 rounded to the nearest integer, ties away
\* from zero.
C5_RoundHalfAwayFromZero ==
    \A k \in DOMAIN track :
        track[k].time =
            (2 * Accumulated(origin[k]) * TickNum + TickDen) \div (2 * TickDen)

\* C5 amended: every recorded tick_delta is the accumulated time times
\* ticks_per_beat * tempo_bpm / 60 rounded to the nearest integer, ties to the
\* even integer; half a second at 120 bpm and 480 ticks per beat is 480 ticks.
C5_RoundHalfToEven ==
    \A k \in DOMAIN track :
        LET x == Accumulated(origin[k]) * TickNum
            t == track[k].time
        IN  /\ 2 * Dist(t * TickDen, x) <= TickDen
            /\ 2 * Dist(t * TickDen, x) = TickDen => t % 2 = 0
            /\ 2 * Accumulated(origin[k]) = UnitsPerSec => t = 480

\* An event recorded after half a tick (a tie) with a tick_delta of 0, and
\* one recorded after half a second with 480.
C5_Witness ==
    /\ \E k \in DOMAIN track :
          Accumulated(origin[k]) = 1 /\ track[k].time = 0
    /\ \E k \in DOMAIN track :
          2 * Accumulated(origin[k]) = UnitsPerSec /\ track[k].time = 480

\* C7: every event of __call__ whose high nibble is 0x8..0xE appends exactly
\* one message, of the type mapped to the nibble, on the channel of the low
\* nibble, with data1 and data2; no other event appends one, and no call
\* raises.
C7_ClassifiesEveryChannelVoice ==
    /\ ~cbRaised
    /\ Len(track) = Cardinality({i \in DOMAIN fed : ChannelVoice(fed[i].status)})
    /\ \A k \in DOMAIN track : Untimed(track[k]) = Decoded(fed[origin[k]])

-----------------------------------------------------------------------------
\* Properties of the whole program.

Last(q) == q[Len(q)]
RotationPcs == {"save", "close", "reopen", "rwait", "fname", "rstart"}

\* C1: auto mode, one rotation, no failure of device or disk, no message
\* inside the rotation's hand-over, then an interrupt during the second
\* session.  The run has persisted two files under distinct names, the first
\* holding exactly the events received before the silence, the second exactly
\* those received after it, and the second session's first tick_delta counts
\* time from a fresh accumulator.
C1_TwoSegmentsTwoFiles ==
    (pc = "done" /\ intrAt = "loop" /\ ~fault /\ clean /\ Len(recv) = 2)
    => /\ Len(files) = 2
       /\ files[1].name # files[2].name
       /\ UntimedAll(files[1].events) = DecodedAll(recv[1])
       /\ UntimedAll(files[2].events) = DecodedAll(recv[2])
       /\ files[2].events # <<>> =>
             files[2].events[1].time = Second2Tick(SumDt(1, origin[1]))

\* C2: the channel-voice event wait_first_event consumed is in the session's
\* track exactly once, as its first event.
C2_FirstEventExactlyOnce ==
    (mid /\ sessFirst # <<>> /\ ChannelVoice(sessFirst[1].status))
    => /\ track # <<>>
       /\ Untimed(track[1]) = Decoded(sessFirst[1])
       /\ Cardinality({k \in DOMAIN origin : origin[k] = 1}) = 1

\* C6: no message of a track comes from an active-sense event, and the
\* message buffered for start_recording is never an active-sense event.
C6_ActiveSenseNeverRecorded ==
    /\ \A k \in DOMAIN track : fed[origin[k]].status # 254
    /\ Len(track) <= Cardinality({i \in DOMAIN fed : fed[i].status # 254})
    /\ pc \in {"start", "fname", "rstart"} =>
          (msg # <<>> /\ msg[1].status # 254)
    /\ sessFirst # <<>> => sessFirst[1].status # 254

\* Active sense was the first message received (wait_first_event skipped it),
\* another reached __call__ while recording, and the track holds only the
\* note.
C6_Witness ==
    /\ pc = "loop"
    /\ Len(recv[1]) = 3
    /\ recv[1][1].status = 254
    /\ Len(fed) = 2
    /\ fed[2].status = 254
    /\ Len(track) = 1

\* C8: the input thread never runs __call__ on the session while the control
\* thread is inside a rotation.
C8_RotationSerialized ==
    ~(gwActed /\ pc \in RotationPcs)

\* C9: after a KeyboardInterrupt, with device and disk working, the process
\* ends with exit code 0 and the track it holds is the last one saved.
C9_InterruptEndsInSuccess ==
    (intrAt # "none" /\ ~fault /\ pc \in Terminal)
    => /\ exit = "0"
       /\ mid => (files # <<>> /\ Last(files).events = track)

\* C10: when the process fails without an interrupt while a track with events
\* exists, that track has been saved before the exit with code 1.
C10_FailureFlushesTrack ==
    (pc = "failed" /\ intrAt = "none" /\ track # <<>>)
    => /\ exit = "1"
       /\ files # <<>>
       /\ Last(files).events = track

-----------------------------------------------------------------------------
\* Sessions and the files they are saved to.

\* The session whose track files[i] holds: the i-th save of a rotation saves
\* the i-th session, the save after the try block the session started last.
FileSession(i) ==
    IF pc = "done" /\ i = Len(files) THEN Len(sessions) ELSE i

\* C11 as stated: in auto mode every file's name embeds the start time of the
\* session it holds, and no two sessions are saved under one name.
C11_NameIsSessionStart ==
    auto # 0 =>
       /\ \A i \in DOMAIN files :
             files[i].name = StampedName(sessions[FileSession(i)].start)
       /\ \A i, j \in DOMAIN files :
             files[i].name = files[j].name => FileSession(i) = FileSession(j)

\* C11 amended: in auto mode the first session is saved under the name
\* stamped when the program started, every later session under a name stamped
\* between the arrival of its first event and its start_recording, and no
\* two sessions are saved under one name.
C11_DistinctStampedNames ==
    auto # 0 =>
       /\ \A i \in DOMAIN files :
             FileSession(i) = i =>
                /\ i = 1 => files[i].name = StampedName(0)
                /\ i > 1 => \E t \in sessions[i].first..sessions[i].start :
                               files[i].name = StampedName(t)
       /\ \A i, j \in DOMAIN files :
             files[i].name = files[j].name => FileSession(i) = FileSession(j)

\* Three sessions have been saved, under three different names.
C11_Witness ==
    /\ pc = "done"
    /\ intrAt = "loop"
    /\ Len(files) = 3
    /\ Len(sessions) = 3
    /\ \A i \in 1..3 : files[i].events # <<>>
    /\ \A i, j \in 1..3 : i # j => files[i].name # files[j].name

\* C12: without auto mode there is no rotation: the control thread never
\* enters one, the file name stays the fixed one, and the only save is the one
\* that ends the run.
C12_NoRotationWithoutAuto ==
    auto = 0 =>
       /\ pc \notin RotationPcs
       /\ Len(recv) = 1
       /\ Len(sessions) <= 1
       /\ filename = FixedName
       /\ Len(files) <= 1
       /\ files # <<>> => (pc = "done" /\ files[1].name = FixedName)
       /\ (pc \in {"loop", "final_close"} /\ intrAt \in {"none", "loop"})
             => (portOpen /\ callback)

\* Without auto mode, a run recorded a note, stayed silent for three seconds
\* and was then stopped: one file.
C12_Witness ==
    /\ auto = 0
    /\ pc = "done"
    /\ track # <<>>
    /\ now >= time_last_msg + 3
    /\ Len(files) = 1

\* C13: a run that received only active-sense and unknown-status events, has
\* read them all and was stopped, ends with success, an empty track and that
\* empty track saved.
C13_EmptyTrackIsSaved ==
    ( /\ pc \in Terminal
      /\ intrAt # "none"
      /\ ~fault
      /\ nEvents > 0
      /\ queue = <<>>
      /\ \A i \in DOMAIN recv : \A k \in DOMAIN recv[i] :
            ~ChannelVoice(recv[i][k].status) )
    => /\ exit = "0"
       /\ track = <<>>
       /\ files # <<>>
       /\ Last(files).events = <<>>

\* C14: after the save of a rotation the saved track gets no further event.
C14_SavedTrackNotReused ==
    pc \in {"close", "reopen", "rwait", "fname", "rstart"}
    => track = Last(files).events

\* C15: when the rotation executes save_track, the timeout is exceeded.
C15_SaveOnlyWhenIdle ==
    [][ (pc = "save" /\ Len(files') > Len(files))
        => now > time_last_msg + auto ]_vars

\* A step that leaves the rotation: an exception or the interrupt.
Aborted == pc' \in {"failed", "final_close"}

\* C16: a rotation is entered from the program loop only and performs its
\* steps in order: the track is saved, the port closed, the port reopened,
\* a first event waited for, the file name stamped, and then the new session
\* created; a session is created only when every earlier one has been saved.
C16_RotationStepsInOrder ==
    [][ /\ pc' = "save" => pc \in {"loop", "save"}
        /\ (pc = "save" /\ pc' # pc) =>
              \/ Aborted
              \/ /\ pc' = "close"
                 /\ files' = Append(files, [name |-> filename, events |-> track])
                 /\ sessions' = sessions
        /\ (pc = "close" /\ pc' # pc) =>
              \/ Aborted
              \/ /\ pc' = "reopen"
                 /\ portOpen /\ ~portOpen' /\ ~callback'
                 /\ files' = files /\ sessions' = sessions
        /\ (pc = "reopen" /\ pc' # pc) =>
              \/ Aborted
              \/ /\ pc' = "rwait"
                 /\ ~portOpen /\ portOpen'
                 /\ files' = files /\ sessions' = sessions
        /\ (pc = "rwait" /\ pc' # pc) =>
              \/ Aborted
              \/ /\ pc' = "fname"
                 /\ queue # <<>> /\ msg' = <<Head(queue)>>
                 /\ FirstEventAccepted(msg'[1].status)
                 /\ files' = files /\ sessions' = sessions
        /\ (pc = "fname" /\ pc' # pc) =>
              \/ Aborted
              \/ /\ pc' = "rstart"
                 /\ filename' = StampedName(now)
                 /\ msg' = msg
                 /\ files' = files /\ sessions' = sessions
        /\ (pc = "rstart" /\ pc' # pc) =>
              \/ pc' = "final_close"
              \/ /\ pc' \in {"loop", "failed"}
                 /\ Len(sessions') = Len(sessions) + 1
                 /\ fed' = <<msg[1]>>
                 /\ Len(track') <= 1
                 /\ files' = files
        /\ sessions' # sessions =>
              /\ pc \in {"start", "rstart"}
              /\ Len(files) = Len(sessions)
              /\ \A i \in DOMAIN files : files[i].name # filename
      ]_vars

\* A rotation has been completed: the first session is saved and the second
\* one records into a new track under a new name.
C16_Witness ==
    /\ pc = "loop"
    /\ Len(files) = 1
    /\ Len(sessions) = 2
    /\ files[1].events # <<>>
    /\ track # <<>>
    /\ filename # files[1].name

\* C17: wait_first_event returns on the first message whose status byte is
\* neither 0 nor 0xFE and on no other; a message it skips changes nothing of
\* the recorder, and the session started afterwards has taken its only event
\* and its only delta time from the message wait_first_event returned on.
C17_FirstEventStartsSession ==
    [][ /\ (pc \in {"wait", "rwait"} /\ pc' \in {"start", "fname"}) =>
              /\ queue # <<>>
              /\ Head(queue).status \notin {0, ActiveSense}
              /\ msg' = <<Head(queue)>>
              /\ time_last_msg' = now
        /\ (pc \in {"wait", "rwait"} /\ queue # <<>> /\ queue' = Tail(queue)) =>
              IF Head(queue).status \notin {0, ActiveSense}
              THEN pc' = (IF pc = "wait" THEN "start" ELSE "fname")
              ELSE /\ pc' = pc
                   /\ UNCHANGED <<track, abstime, time_last_msg, fed, files,
                                  sessions>>
        /\ sessions' # sessions =>
              /\ msg # <<>>
              /\ msg[1].status \notin {0, ActiveSense}
              /\ fed' = <<msg[1]>>
              /\ abstime' \in {0, msg[1].dt}
              /\ Len(track') <= 1
              /\ track' # <<>> => track'[1].time = Second2Tick(msg[1].dt)
      ]_vars

\* The device sent active sense, a zero status byte and a note before the
\* first session: the session holds the note alone, timed by the note's own
\* delta time.
C17_Witness ==
    /\ pc = "loop"
    /\ Len(sessions) = 1
    /\ Len(recv[1]) = 3
    /\ recv[1][1].status = ActiveSense
    /\ recv[1][2].status = 0
    /\ recv[1][3].status = 144
    /\ fed = <<recv[1][3]>>
    /\ Len(track) = 1
    /\ track[1].time = Second2Tick(recv[1][3].dt)
    /\ abstime = 0

\* The program loop is running in auto mode and the timeout is exceeded.
IdleInLoop == pc = "loop" /\ auto # 0 /\ now > time_last_msg + auto

\* The rotation has saved the track of the last session and waits for the
\* first event of the next one.
RotatedToWait == pc = "rwait" /\ Len(files) = Len(sessions)

\* The run has been interrupted or has ended with an exception.
Stopped == pc \in {"final_close", "final_save", "done", "failed"}

\* C18: in auto mode, once the timeout is exceeded in the program loop, the
\* control thread eventually saves the track and waits for a first event
\* again, unless the run is stopped or an event other than active sense is
\* recorded first; only such an event ends the idle condition, and an active
\* sense message leaves time_last_msg as it is.
C18_IdleLeadsToRotation ==
    /\ [][ /\ (IdleInLoop /\ pc' = "loop" /\ ~IdleInLoop') =>
                 /\ gwActed'
                 /\ Len(fed') = Len(fed) + 1
                 /\ Last(fed').status # ActiveSense
           /\ (pc = "loop" /\ gwActed' /\ Len(fed') = Len(fed) + 1
                 /\ Last(fed').status = ActiveSense) =>
                 time_last_msg' = time_last_msg
         ]_vars
    /\ IdleInLoop ~> (RotatedToWait \/ Stopped \/ (pc = "loop" /\ ~IdleInLoop))

\* The device sent active sense during the silence after a note, and the
\* rotation has nevertheless saved the note and waits for a first event.
C18_Witness ==
    /\ RotatedToWait
    /\ Len(files) = 1
    /\ files[1].events # <<>>
    /\ Len(recv[1]) >= 2
    /\ recv[1][1].status = 144
    /\ \A k \in 2..Len(recv[1]) : recv[1][k].status = ActiveSense
    /\ Len(fed) = Len(recv[1])

-----------------------------------------------------------------------------
\* Further properties of the recorder alone.

\* The step is a call of __call__ by the input thread; its event is then the
\* last of fed.
Invoked == gwActed' /\ Len(fed') = Len(fed) + 1

\* C19: __call__ with an active-sense event adds the event's delta time to
\* abstime and changes nothing else, neither the track nor time_last_msg;
\* __call__ with an event of unknown status (high nibble outside 0x8..0xE,
\* not 0xFE) adds the delta time to abstime without resetting it, leaves the
\* track alone and sets time_last_msg to the current time.
C19_FrameOfIgnoredEvents ==
    [][ Invoked =>
          LET e == Last(fed')
          IN  /\ e.status = ActiveSense =>
                    /\ abstime' = abstime + e.dt
                    /\ UNCHANGED <<track, time_last_msg, msg, mid, filename,
                                   files, dev, cbRaised>>
              /\ (e.status # ActiveSense /\ HighNibble(e.status) \notin 8..14) =>
                    /\ abstime' = abstime + e.dt
                    /\ time_last_msg' = now
                    /\ UNCHANGED <<track, msg, mid, filename, files, dev,
                                   cbRaised>>
      ]_vars

\* An active sense and then a message of unknown status have been processed:
\* the track is empty, the accumulator holds both delta times, and
\* time_last_msg is the time of the second call.
C19_Witness ==
    /\ Len(fed) = 2
    /\ fed[1].status = ActiveSense
    /\ fed[2].status = 242
    /\ track = <<>>
    /\ abstime = fed[1].dt + fed[2].dt
    /\ time_last_msg = now
    /\ time_last_msg # 0

\* The recorded events are in the order of their arrival, and each is timed
\* by the quantization of the time accumulated since the previous
\* NoteOn/NoteOff or since the start of the session.
TrackTimedByAccumulation ==
    /\ Len(origin) = Len(track)
    /\ \A k \in DOMAIN track :
          /\ origin[k] \in DOMAIN fed
          /\ k > 1 => origin[k - 1] < origin[k]
          /\ track[k].type = TypeOfNibble(HighNibble(fed[origin[k]].status))
          /\ track[k].time = RoundHalfEven(Accumulated(origin[k]) * TickNum, TickDen)
          /\ (k > 1 /\ track[k - 1].type \notin {"note_on", "note_off"})
                => track[k - 1].time <= track[k].time

\* C20: within a session __call__ only appends to the track, at most one
\* event per call; the events are in arrival order; each tick_delta is the
\* quantization of the whole time accumulated since the previous
\* NoteOn/NoteOff (or the session start), so the values after one
\* NoteOn/NoteOff up to and including the next never decrease.
C20_AppendOnlyAccumulatedTicks ==
    [][ /\ Invoked =>
              \/ track' = track
              \/ /\ Len(track') = Len(track) + 1
                 /\ SubSeq(track', 1, Len(track)) = track
        /\ TrackTimedByAccumulation'
      ]_vars

\* A note and two control changes have been recorded, the second control
\* change with a larger tick_delta than the first.
C20_Witness ==
    /\ Len(track) = 3
    /\ track[1].type \in {"note_on", "note_off"}
    /\ track[2].type = "control_change"
    /\ track[3].type = "control_change"
    /\ 0 < track[2].time
    /\ track[2].time < track[3].time
    /\ track[3].time = Second2Tick(fed[2].dt + fed[3].dt)

====
